---- MODULE Spec2Model ----
(***************************************************************************)
(* askhostname: NetBIOS NODE STATUS and mDNS reverse-PTR queries over UDP, *)
(* for one host or for every host of a CIDR block.                         *)
(*                                                                         *)
(* Two specifications share this module:                                   *)
(*   SpecCodec  one exchange of one protocol: build the request, run the   *)
(*              transport, parse the 256-byte receive buffer;              *)
(*   Spec       lib.rs `run`: App::new, ask / ask_multiple, the per-host   *)
(*              query_and_out units, the two mutexes, Drop for App.        *)
(* Bytes are naturals 0..255, strings are sequences of bytes, slices are   *)
(* 0-based half-open as in the source.                                     *)
(***************************************************************************)
EXTENDS Integers, Sequences, FiniteSets, TLC

VARIABLES
    \* ---- SpecCodec ----
    cpc,        \* position of the exchange: "new", "built", inside query, "queried", "done"
    cin,        \* inputs: protocol, address, transaction id, socket outcomes, datagram
    creq,       \* request bytes handed to query
    chdr,       \* the request's header fields as they appear on the wire
    qlog,       \* the socket calls query has made, in order
    cbuff,      \* what query returned
    cres,       \* what send returned
    \* ---- Spec ----
    args,       \* Args: target, wait, verbose, quiet, timeout
    build,      \* build profile: are integer overflow checks compiled in
    net,        \* what the network does for each host
    TIMEOUT,    \* net::TIMEOUT in milliseconds
    mpc,        \* position of the main thread inside run
    ret,        \* what run returned
    spawned,    \* number of per-host units dispatched so far
    upc,        \* position of each per-host unit inside query_and_out
    ures,       \* each unit's local QueryResult
    uerrs,      \* each unit's local errors vector
    uret,       \* what each unit's query_and_out returned
    usent,      \* protocols each unit has handed to the transport, in order
    outbuf,     \* OutputBuffer's string, one element per written entry
    stdout,     \* what was printed to STDOUT, in order
    stderr,     \* what was printed to STDERR, in order
    errors,     \* ask_multiple's shared (addr, error) list
    seen,       \* the error list as ask_multiple read it
    outLock,    \* holder of the OutputBuffer mutex
    errLock     \* holder of the error-list mutex

cvars == <<cpc, cin, creq, chdr, qlog, cbuff, cres>>
svars == <<args, build, net, TIMEOUT, mpc, ret, spawned, upc, ures, uerrs,
           uret, usent, outbuf, stdout, stderr, errors, seen, outLock, errLock>>
vars == <<cvars, svars>>

\* a mutex is Unlocked or holds the thread that locked it: the thread of
\* run, or the blocking-pool thread running the unit of host h
Unlocked == <<>>
MainThread == <<0>>
UnitThread(h) == <<h>>

(***************************************************************************)
(* Bytes and slices                                                        *)
(***************************************************************************)
Byte == 0..255

\* s[from..to], 0-based, end exclusive
Slice(s, from, to) == SubSeq(s, from + 1, to)

\* s[i], 0-based
At(s, i) == s[i + 1]

Min(a, b) == IF a < b THEN a ELSE b

Zeros(n) == [i \in 1..n |-> 0]

RECURSIVE BitAnd(_, _)
BitAnd(a, b) ==
    IF a = 0 \/ b = 0 THEN 0
    ELSE (a % 2) * (b % 2) + 2 * BitAnd(a \div 2, b \div 2)

\* u16::to_be followed by the reinterpretation of the field as bytes
ToBeBytes(v) == <<(v \div 256) % 256, v % 256>>

\* big-endian read of a 16-bit wire field
U16At(s, i) == At(s, i) * 256 + At(s, i + 1)

IsAsciiAlphanumeric(b) ==
    \/ b \in 48..57
    \/ b \in 65..90
    \/ b \in 97..122

IsAsciiPunctuation(b) ==
    \/ b \in 33..47
    \/ b \in 58..64
    \/ b \in 91..96
    \/ b \in 123..126

RECURSIVE Printable(_)
Printable(s) ==
    IF s = <<>> THEN <<>>
    ELSE (IF IsAsciiAlphanumeric(Head(s)) \/ IsAsciiPunctuation(Head(s))
          THEN <<Head(s)>> ELSE <<>>) \o Printable(Tail(s))

(***************************************************************************)
(* Results                                                                 *)
(***************************************************************************)
Err(e) == [tag |-> "Err", err |-> e]
OkSome(v) == [tag |-> "Some", val |-> v]
OkNone == [tag |-> "None"]
Panic == [tag |-> "Panic"]

(***************************************************************************)
(* net/mod.rs                                                              *)
(***************************************************************************)
RECV_BUFF_SIZE == 256
DnsHeaderSIZE == 12

\* new_nbns carrying the flag bit of main.rs's request
DnsHeaderNewNbnsFlagged(tid) ==
    [trans_id |-> ToBeBytes(tid),
     flags    |-> ToBeBytes(16),
     qdcount  |-> ToBeBytes(1),
     ancount  |-> ToBeBytes(0),
     nscount  |-> ToBeBytes(0),
     arcount  |-> ToBeBytes(0)]

DnsHeaderNewNbns(tid) ==
    [trans_id |-> ToBeBytes(tid),
     flags    |-> ToBeBytes(0),
     qdcount  |-> ToBeBytes(1),
     ancount  |-> ToBeBytes(0),
     nscount  |-> ToBeBytes(0),
     arcount  |-> ToBeBytes(0)]

DnsHeaderNewMdns ==
    [trans_id |-> ToBeBytes(0),
     flags    |-> ToBeBytes(0),
     qdcount  |-> ToBeBytes(1),
     ancount  |-> ToBeBytes(0),
     nscount  |-> ToBeBytes(0),
     arcount  |-> ToBeBytes(0)]

\* no header built yet
NoHeader == [trans_id |-> <<>>, flags |-> <<>>, qdcount |-> <<>>,
             ancount |-> <<>>, nscount |-> <<>>, arcount |-> <<>>]

\* the repr(C) header read as bytes
HeaderAsSlice(h) ==
    h.trans_id \o h.flags \o h.qdcount \o h.ancount \o h.nscount \o h.arcount

MacAddressFromBytes(bytes) ==
    IF Len(bytes) # 6 THEN OkNone ELSE OkSome(bytes)

\* query raising a failed recv as an error
QueryRecvRaises(sock, timeout, request) ==
    IF ~sock.bind THEN Err("SocketCreate")
    ELSE IF ~sock.connect THEN Err("SocketConnect")
    ELSE IF timeout = 0 \/ ~sock.wtimeout THEN Err("SocketTimeout")
    ELSE IF ~sock.rtimeout THEN Err("SocketTimeout")
    ELSE IF ~sock.send THEN Err("SocketSend")
    ELSE IF sock.recv # "Reply" THEN Err("SocketTimeout")
    ELSE LET n == Min(Len(sock.dgram), RECV_BUFF_SIZE)
         IN  OkSome(Slice(sock.dgram, 0, n) \o Zeros(RECV_BUFF_SIZE - n))

\* sock: which socket calls succeed, and the datagram the host sends back
\* (recv fails with "NoReply", a timeout, or "Refused").  timeout is the
\* duration get_timeout returns.
Query(sock, timeout, request) ==
    IF ~sock.bind THEN Err("SocketCreate")
    ELSE IF ~sock.connect THEN Err("SocketConnect")
    ELSE IF timeout = 0 \/ ~sock.wtimeout THEN Err("SocketTimeout")
    ELSE IF ~sock.rtimeout THEN Err("SocketTimeout")
    ELSE IF ~sock.send THEN Err("SocketSend")
    ELSE IF sock.recv # "Reply" THEN OkNone
    ELSE LET n == Min(Len(sock.dgram), RECV_BUFF_SIZE)
         IN  OkSome(Slice(sock.dgram, 0, n) \o Zeros(RECV_BUFF_SIZE - n))

(***************************************************************************)
(* net/nbns.rs                                                             *)
(***************************************************************************)
NbnsMIN_RESPONSE_SIZE == 32

NbnsQuestion == <<32, 67, 75>> \o [i \in 1..30 |-> 65] \o <<0>>

NbnsNew(tid) ==
    [header   |-> DnsHeaderNewNbns(tid),
     question |-> NbnsQuestion,
     qtype    |-> ToBeBytes(33),
     qclass   |-> ToBeBytes(1)]

NbnsAsSlice(q) == HeaderAsSlice(q.header) \o q.question \o q.qtype \o q.qclass

NbnsSIZE == DnsHeaderSIZE + 34 + 2 + 2

\* the match with the single-bit arms ahead of the combined arm
NbnsClassifySingleFirst(f) ==
    IF BitAnd(f, 2) # 0 THEN "Permanent"
    ELSE IF BitAnd(f, 128) # 0 THEN "Group"
    ELSE IF BitAnd(f, 130) = 130 THEN "PermanentGroup"
    ELSE "Unique"

\* the match on a name record's flag byte
NbnsClassify(f) ==
    IF BitAnd(f, 130) = 130 THEN "PermanentGroup"
    ELSE IF BitAnd(f, 2) # 0 THEN "Permanent"
    ELSE IF BitAnd(f, 128) # 0 THEN "Group"
    ELSE "Unique"

\* slice.chunks(n)
RECURSIVE Chunks(_, _)
Chunks(s, n) ==
    IF s = <<>> THEN <<>>
    ELSE IF Len(s) <= n THEN <<s>>
    ELSE <<Slice(s, 0, n)>> \o Chunks(Slice(s, n, Len(s)), n)

\* iterator.take(n)
Take(s, n) == Slice(s, 0, Min(n, Len(s)))

\* body of the for loop for one chunk; a chunk shorter than 17 bytes makes
\* one of chunk[..=14], chunk[15], chunk[16] panic
NbnsName(chunk) ==
    IF Len(chunk) < 17 THEN Panic
    ELSE OkSome([kind    |-> NbnsClassify(At(chunk, 16)),
                 name    |-> Printable(Slice(chunk, 0, 15)),
                 service |-> At(chunk, 15)])

RECURSIVE NbnsNames(_)
NbnsNames(chunks) ==
    IF chunks = <<>> THEN OkSome(<<>>)
    ELSE LET n    == NbnsName(Head(chunks))
             rest == NbnsNames(Tail(chunks))
         IN  IF n.tag = "Panic" \/ rest.tag = "Panic" THEN Panic
             ELSE OkSome(<<n.val>> \o rest.val)

\* NbnsQuery::send from the buffer on
NbnsParse(buff) ==
    IF Len(buff) <= NbnsSIZE + NbnsMIN_RESPONSE_SIZE THEN Err("InvalidResponseNbns")
    ELSE
    LET head        == Slice(buff, NbnsSIZE + 4, Len(buff))
        data_size   == U16At(head, 0)
        names_count == At(head, 2)
        response    == Slice(head, 3, Len(head))
    IN  IF data_size > Len(response) THEN Panic
        ELSE
        LET names == NbnsNames(Take(Chunks(Slice(response, 0, data_size), 18), names_count))
        IN  IF names.tag = "Panic" THEN Panic
            ELSE IF names_count * 18 + 6 > Len(response) THEN Panic
            ELSE
            LET raw_mac == Slice(response, names_count * 18, names_count * 18 + 6)
                mac     == MacAddressFromBytes(raw_mac)
                all     == IF mac.tag = "Some"
                           THEN names.val \o <<[kind |-> "Mac", mac |-> mac.val]>>
                           ELSE names.val
            IN  IF all = <<>> THEN Err("InvalidResponseNbns")
                ELSE OkSome(all)

\* NbnsQuery::send after the call of query
NbnsReceive(buff) ==
    IF buff.tag = "Err" THEN buff
    ELSE IF buff.tag = "None" THEN OkNone
    ELSE NbnsParse(buff.val)

NbnsSend(sock, timeout, tid) ==
    NbnsReceive(Query(sock, timeout, NbnsAsSlice(NbnsNew(tid))))

(***************************************************************************)
(* net/mdns.rs                                                             *)
(***************************************************************************)
MdnsMIN_RESPONSE_SIZE == 18

\* u8::to_string as ASCII bytes
RECURSIVE DecStr(_)
DecStr(n) == IF n < 10 THEN <<48 + n>> ELSE DecStr(n \div 10) \o <<48 + (n % 10)>>

Reverse(s) == [i \in 1..Len(s) |-> s[Len(s) + 1 - i]]

\* the loop pushing each octet string as a length-prefixed label
RECURSIVE PushLabels(_)
PushLabels(strs) ==
    IF strs = <<>> THEN <<>>
    ELSE <<Len(Head(strs))>> \o Head(strs) \o PushLabels(Tail(strs))

StrInAddr == <<105, 110, 45, 97, 100, 100, 114>>
StrArpa == <<97, 114, 112, 97>>

\* MdnsQuery::new iterating the octets without .rev()
MdnsNewForward(a) ==
    LET octets == [i \in 1..4 |-> DecStr(a[i])]
    IN  [header |-> DnsHeaderNewMdns,
         qname  |-> PushLabels(octets)
                      \o <<7>> \o StrInAddr \o <<4>> \o StrArpa \o <<0>>,
         qtype  |-> ToBeBytes(12),
         qclass |-> ToBeBytes(1)]

\* MdnsQuery::new for IpAddr::V4(a); a is the four octets
MdnsNew(a) ==
    LET octets == [i \in 1..4 |-> DecStr(a[i])]
    IN  [header |-> DnsHeaderNewMdns,
         qname  |-> PushLabels(Reverse(octets))
                      \o <<7>> \o StrInAddr \o <<4>> \o StrArpa \o <<0>>,
         qtype  |-> ToBeBytes(12),
         qclass |-> ToBeBytes(1)]

\* to_packet on a little-endian host: `x as u8` is the first byte of the
\* stored field and `(x >> 8) as u8` the second
MdnsToPacket(q) ==
    HeaderAsSlice(q.header) \o q.qname
        \o <<q.qtype[1]>> \o <<q.qtype[2]>> \o <<q.qclass[1]>> \o <<q.qclass[2]>>

\* the closure counting only the bytes it keeps against the word size
MdnsStepCountsKept(st, b) ==
    IF st.word_size = 0
    THEN [word_size |-> b, name |-> st.name \o <<46>>]
    ELSE IF IsAsciiAlphanumeric(b) \/ IsAsciiPunctuation(b)
    THEN [word_size |-> st.word_size - 1, name |-> st.name \o <<b>>]
    ELSE st

\* the for_each closure: one byte b against the running word size and name
MdnsStep(st, b) ==
    IF st.word_size = 0
    THEN [word_size |-> b, name |-> st.name \o <<46>>]
    ELSE [word_size |-> st.word_size - 1,
          name |-> IF IsAsciiAlphanumeric(b) \/ IsAsciiPunctuation(b)
                   THEN st.name \o <<b>> ELSE st.name]

\* for_each over the taken bytes, left to right (split in halves, the left
\* half evaluated first, to keep the evaluation shallow)
RECURSIVE MdnsFold(_, _)
MdnsFold(bytes, st) ==
    IF bytes = <<>> THEN st
    ELSE IF Len(bytes) = 1 THEN MdnsStep(st, bytes[1])
    ELSE LET h    == Len(bytes) \div 2
             left == MdnsFold(SubSeq(bytes, 1, h), st)
         IN  IF left.word_size >= 0
             THEN MdnsFold(SubSeq(bytes, h + 1, Len(bytes)), left)
             ELSE left

\* MdnsQuery::send from the buffer on.  answer_size - 2 is u16 arithmetic:
\* with overflow checks compiled in it panics below 2, without it wraps.
MdnsParse(buff, request_len, profile) ==
    IF Len(buff) <= request_len + MdnsMIN_RESPONSE_SIZE THEN Err("InvalidResponseMdns")
    ELSE
    LET head        == Slice(buff, request_len + 10, Len(buff))
        answer_size == U16At(head, 0)
        word_size   == At(head, 2)
        response    == Slice(head, 3, Len(head))
    IN  IF answer_size < 2 /\ profile = "debug" THEN Panic
        ELSE OkSome(MdnsFold(Take(response, (answer_size - 2) % 65536),
                             [word_size |-> word_size, name |-> <<>>]).name)

\* MdnsQuery::send after the call of query
MdnsReceive(buff, request_len, profile) ==
    IF buff.tag = "Err" THEN buff
    ELSE IF buff.tag = "None" THEN OkNone
    ELSE MdnsParse(buff.val, request_len, profile)

MdnsSend(a, sock, timeout, profile) ==
    LET request == MdnsToPacket(MdnsNew(a))
    IN  MdnsReceive(Query(sock, timeout, request), Len(request), profile)

(***************************************************************************)
(* main.rs: the stand-alone NODE STATUS probe                              *)
(***************************************************************************)
NdnsRequestNew ==
    [header   |-> [trans_id |-> ToBeBytes(20513),
                   flags    |-> ToBeBytes(16),
                   qdcount  |-> ToBeBytes(1),
                   ancount  |-> ToBeBytes(0),
                   nscount  |-> ToBeBytes(0),
                   arcount  |-> ToBeBytes(0)],
     question |-> NbnsQuestion,
     qtype    |-> ToBeBytes(33),
     qclass   |-> ToBeBytes(1)]

NdnsAsSlice(q) == HeaderAsSlice(q.header) \o q.question \o q.qtype \o q.qclass

(***************************************************************************)
(* What the network can do to one exchange                                 *)
(***************************************************************************)
MaxNames == 2
BigCount == 11
DEFAULT_TIMEOUT_MS == 500

SockSteps == {"bind", "connect", "wtimeout", "rtimeout", "send"}

\* every socket call succeeds and the host answers with datagram d
SockReply(d) ==
    [bind |-> TRUE, connect |-> TRUE, wtimeout |-> TRUE, rtimeout |-> TRUE,
     send |-> TRUE, recv |-> "Reply", dgram |-> d]

\* every socket call succeeds and recv times out
SockNoReply == [SockReply(<<>>) EXCEPT !.recv = "NoReply"]

\* every socket call succeeds and recv fails on an ICMP port unreachable
SockRefused == [SockNoReply EXCEPT !.recv = "Refused"]

SockRecvFailures == {SockNoReply, SockRefused}

\* the socket call named step fails
SockFail(step) == [SockNoReply EXCEPT ![step] = FALSE]

SockFailures == {SockFail(step) : step \in SockSteps}

TransIds == {0, 20513, 65535}
OctetSamples == {0, 1, 10, 127, 255}
FlagSamples == {0, 2, 128, 130, 125}
Profiles == {"debug", "release"}

Spaces(n) == [i \in 1..n |-> 32]

\* one 18-byte NODE STATUS name record: "HOST<i>" padded with spaces, with
\* one control byte inside the name, service 0x20, the flag byte, reserved
NbnsRecord(i, flag) ==
    <<72, 79, 1, 83, 84, 48 + i>> \o Spaces(9) \o <<32, flag, 0>>

RECURSIVE NbnsRecords(_, _)
NbnsRecords(n, flag) ==
    IF n = 0 THEN <<>> ELSE NbnsRecords(n - 1, flag) \o NbnsRecord(n, flag)

SampleMac == <<2, 0, 94, 16, 32, 48>>

\* a NODE STATUS response declaring `count` names in `size` bytes, carrying
\* nrec records, cut after len bytes
NbnsDatagram(count, size, nrec, flag, len) ==
    Take(NbnsAsSlice(NbnsNew(0)) \o Zeros(4) \o ToBeBytes(size) \o <<count>>
            \o NbnsRecords(nrec, flag) \o SampleMac \o Zeros(40), len)

NbnsCounts == (0..MaxNames) \cup {BigCount}
NbnsSizes == {18 * k : k \in 0..MaxNames} \cup {20, 200}
NbnsLens == {0, 30, NbnsSIZE + 7 + 18, RECV_BUFF_SIZE}

NbnsDatagrams ==
    {NbnsDatagram(c, s, r, f, l) :
        c \in NbnsCounts, s \in NbnsSizes, r \in 0..MaxNames,
        f \in FlagSamples, l \in NbnsLens}
    \cup {NbnsDatagram(1, 65, 1, f, RECV_BUFF_SIZE) : f \in Byte}

NbnsInputs ==
    {[proto |-> "nbns", tid |-> 0, ip |-> <<127, 0, 0, 1>>, sock |-> SockReply(d)] :
        d \in NbnsDatagrams}
    \cup {[proto |-> "nbns", tid |-> t, ip |-> <<127, 0, 0, 1>>, sock |-> s] :
        t \in TransIds, s \in SockFailures \cup SockRecvFailures}

\* labels as length-prefixed words with the null terminator
RECURSIVE EncodeLabels(_)
EncodeLabels(labels) ==
    IF labels = <<>> THEN <<0>>
    ELSE <<Len(Head(labels))>> \o Head(labels) \o EncodeLabels(Tail(labels))

LabelSamples ==
    {<<<<112, 99>>, <<108, 111, 99, 97, 108>>>>,
     <<<<97>>>>,
     <<<<97, 1, 98>>, <<108, 111, 99, 97, 108>>>>,
     <<<<109, 121, 32, 112, 99>>, <<0, 120, 200>>, <<108, 111, 99, 97, 108>>>>,
     <<<<104, 45, 49>>, <<7>>, <<108, 97, 110>>>>}

\* a PTR response to request req whose answer declares `size` bytes, cut
\* after len bytes
MdnsDatagram(req, labels, size, len) ==
    Take(req \o <<192, 12, 0, 12, 0, 1>> \o Zeros(4) \o ToBeBytes(size)
            \o EncodeLabels(labels), len)

MdnsDatagrams(req) ==
    UNION {{MdnsDatagram(req, l, s, n) :
                n \in {0, Len(req) + 5, Len(req) + 12 + Len(EncodeLabels(l)),
                        RECV_BUFF_SIZE},
                s \in {0, 1, Len(EncodeLabels(l))}} : l \in LabelSamples}

SampleIps == {<<127, 0, 0, 1>>, <<10, 0, 1, 255>>}
SampleLabels == <<<<112, 99>>, <<108, 111, 99, 97, 108>>>>

MdnsInputs ==
    {[proto |-> "mdns", tid |-> 0, ip |-> a,
      sock |-> SockReply(MdnsDatagram(MdnsToPacket(MdnsNew(a)), SampleLabels,
                                      Len(EncodeLabels(SampleLabels)), RECV_BUFF_SIZE))] :
        a \in [1..4 -> OctetSamples]}
    \cup UNION {{[proto |-> "mdns", tid |-> 0, ip |-> a, sock |-> SockReply(d)] :
                    d \in MdnsDatagrams(MdnsToPacket(MdnsNew(a)))} : a \in SampleIps}
    \cup {[proto |-> "mdns", tid |-> 0, ip |-> a, sock |-> s] :
        a \in SampleIps, s \in SockFailures \cup SockRecvFailures}

NdnsInputs == {[proto |-> "ndns", tid |-> 20513, ip |-> <<127, 0, 0, 1>>, sock |-> SockNoReply]}

(***************************************************************************)
(* lib.rs: what run is given                                               *)
(***************************************************************************)
MaxHosts == 2
TOO_LOW_TIMEOUT_WARNING_MS == 100
TOO_BIG_TIMEOUT_WARNING_MS == 3500

Hosts == 1..MaxHosts

\* the address of host h of the scanned block
HostIp(h) == <<192, 168, 1, h>>

\* args.target: a single address, a CIDR block with nhosts host addresses,
\* or text that parses as neither
Targets ==
    {[kind |-> "addr", family |-> f, nhosts |-> 1] : f \in {"v4", "v6"}}
    \cup {[kind |-> "range", family |-> "v4", nhosts |-> n] : n \in Hosts}
    \cup {[kind |-> "range", family |-> "v6", nhosts |-> MaxHosts]}
    \cup {[kind |-> k, family |-> "none", nhosts |-> 0] : k \in {"bad_addr", "bad_range"}}

\* target.contains('/')
ContainsSlash(target) == target.kind \in {"range", "bad_range"}

FlagSets ==
    {[wait |-> FALSE, verbose |-> FALSE, quiet |-> FALSE],
     [wait |-> TRUE,  verbose |-> FALSE, quiet |-> TRUE],
     [wait |-> TRUE,  verbose |-> TRUE,  quiet |-> FALSE]}

\* Option<u64>: <<>> is None, <<ms>> is Some(ms)
TimeoutArgs == {<<>>, <<0>>, <<50>>, <<250>>, <<4000>>}

MkArgs(t, f, ms) ==
    [target |-> t, wait |-> f.wait, verbose |-> f.verbose, quiet |-> f.quiet,
     timeout |-> ms]

ArgSamples ==
    {MkArgs(t, f, <<>>) : t \in Targets, f \in FlagSets}
    \cup {MkArgs(t, [wait |-> FALSE, verbose |-> TRUE, quiet |-> TRUE], ms) :
            t \in {x \in Targets : x.nhosts = 1}, ms \in TimeoutArgs}

\* hosts the scan will hand to query_and_out's protocol queries
Queried(a) ==
    IF a.target.family = "v4" /\ a.timeout # <<0>>
    THEN 1..a.target.nhosts ELSE {}

\* what a host does with the two requests
Behaviours == {"silent", "answers", "nbns_unsent", "mdns_unbound", "both_fail", "empty"}

GoodNbnsDatagram == NbnsDatagram(1, 65, 1, 4, RECV_BUFF_SIZE)

GoodMdnsDatagram(h) ==
    MdnsDatagram(MdnsToPacket(MdnsNew(HostIp(h))), SampleLabels,
                 Len(EncodeLabels(SampleLabels)), RECV_BUFF_SIZE)

\* the socket outcomes of the NBNS exchange with a host behaving as b
NbnsSock(b) ==
    CASE b = "silent"       -> SockNoReply
      [] b = "answers"      -> SockReply(GoodNbnsDatagram)
      [] b = "nbns_unsent"  -> SockFail("send")
      [] b = "mdns_unbound" -> SockReply(GoodNbnsDatagram)
      [] b = "both_fail"    -> SockFail("connect")
      [] b = "empty"        -> SockReply(<<>>)

\* the socket outcomes of the mDNS exchange with host h behaving as b
MdnsSock(b, h) ==
    CASE b = "silent"       -> SockNoReply
      [] b = "answers"      -> SockReply(GoodMdnsDatagram(h))
      [] b = "nbns_unsent"  -> SockReply(GoodMdnsDatagram(h))
      [] b = "mdns_unbound" -> SockFail("bind")
      [] b = "both_fail"    -> SockFail("rtimeout")
      [] b = "empty"        -> SockReply(<<>>)

\* the values net::TIMEOUT can hold
TimeoutValues == {DEFAULT_TIMEOUT_MS} \cup {ms[1] : ms \in TimeoutArgs \ {<<>>}}

\* NbnsQuery::send(addr) for each behaviour, timeout and transaction id
NbnsSendOf ==
    [b \in Behaviours, t \in TimeoutValues, tid \in TransIds |->
        NbnsSend(NbnsSock(b), t, tid)]

\* MdnsQuery::send(addr) for each behaviour, host, timeout and profile
MdnsSendOf ==
    [b \in Behaviours, h \in Hosts, t \in TimeoutValues, p \in Profiles |->
        MdnsSend(HostIp(h), MdnsSock(b, h), t, p)]

(***************************************************************************)
(* lib.rs: QueryResult, OutputBuffer, query_and_out                        *)
(***************************************************************************)
QueryResultNew == [host_names |-> <<>>, domain_name |-> <<>>]

QueryResultIsEmpty(r) == r.host_names = <<>> /\ r.domain_name = <<>>

\* Display for NbnsAnswer
NbnsAnswerDisplay(a) == IF a.kind = "Mac" THEN <<>> ELSE a.name

Dash == <<45>>

TableHead(family) == [kind |-> "head", family |-> family]

TableRow(h, r) ==
    [kind     |-> "row",
     host     |-> h,
     hostname |-> IF r.host_names # <<>> THEN NbnsAnswerDisplay(r.host_names[1]) ELSE Dash,
     domain   |-> IF r.domain_name # <<>> THEN r.domain_name ELSE Dash]

VerboseEntry(h, r) ==
    [kind |-> "verbose", host |-> h, names |-> r.host_names, domain |-> r.domain_name]

\* the entry query_and_out writes for a non-empty result
EntryOf(h, r, verbose) == IF verbose THEN VerboseEntry(h, r) ELSE TableRow(h, r)

\* the tail of query_and_out: one error as it is, two as InvalidResponses
QueryAndOutReturnFirst(errs) ==
    IF errs # <<>> THEN errs[1] ELSE "Ok"

QueryAndOutReturn(errs) ==
    IF errs # <<>>
    THEN (IF Len(errs) = 1 THEN errs[1] ELSE "InvalidResponses")
    ELSE "Ok"

(***************************************************************************)
(* Spec: run                                                               *)
(***************************************************************************)
Init ==
    /\ args \in ArgSamples
    /\ build \in Profiles
    /\ net \in {f \in [Hosts -> Behaviours] :
                  \A h \in Hosts \ Queried(args) : f[h] = "silent"}
    \* the profile only shows where answer_size - 2 overflows
    /\ (build = "release" \/ \E h \in Hosts : net[h] = "empty")
    /\ TIMEOUT = DEFAULT_TIMEOUT_MS
    /\ mpc = "new"
    /\ ret = "none"
    /\ spawned = 0
    /\ upc = [h \in Hosts |-> "idle"]
    /\ ures = [h \in Hosts |-> QueryResultNew]
    /\ uerrs = [h \in Hosts |-> <<>>]
    /\ uret = [h \in Hosts |-> "none"]
    /\ usent = [h \in Hosts |-> <<>>]
    /\ outbuf = <<>>
    /\ stdout = <<>>
    /\ stderr = <<>>
    /\ errors = <<>>
    /\ seen = <<>>
    /\ outLock = Unlocked
    /\ errLock = Unlocked
    /\ cpc = "idle"
    /\ cin = [proto |-> "none"]
    /\ creq = <<>>
    /\ chdr = NoHeader
    /\ qlog = <<>>
    /\ cbuff = OkNone
    /\ cres = OkNone

cidle == UNCHANGED cvars

\* OutputBuffer::write by thread-free code (nobody else can hold the lock)
WriteNow(entry) ==
    IF args.wait
    THEN outbuf' = Append(outbuf, entry) /\ UNCHANGED stdout
    ELSE stdout' = Append(stdout, entry) /\ UNCHANGED outbuf

\* run up to the choice between ask and ask_multiple: App::new with
\* OutputBuffer::new, then the second parse of the target
RunNew ==
    /\ mpc = "new"
    /\ LET t     == args.target
           ms    == args.timeout
           warn  == IF ms = <<>> THEN <<>>
                    ELSE IF ms[1] <= TOO_LOW_TIMEOUT_WARNING_MS THEN <<[kind |-> "warn_low"]>>
                    ELSE IF ms[1] >= TOO_BIG_TIMEOUT_WARNING_MS THEN <<[kind |-> "warn_big"]>>
                    ELSE <<>>
       IN  IF t.kind \in {"bad_addr", "bad_range"}
           THEN /\ ret' = (IF ContainsSlash(t) THEN "ParseAddressesRange" ELSE "ParseAddress")
                /\ mpc' = "done"
                /\ UNCHANGED <<TIMEOUT, outbuf, stdout, stderr>>
           ELSE IF ms = <<0>>
           THEN \* set_timeout_from_millis(0)
                /\ ret' = "SocketTimeout"
                /\ mpc' = "done"
                /\ stderr' = stderr \o warn
                /\ UNCHANGED <<TIMEOUT, outbuf, stdout>>
           ELSE /\ TIMEOUT' = (IF ms = <<>> THEN TIMEOUT ELSE ms[1])
                /\ stderr' = stderr \o warn
                /\ IF ~(args.quiet \/ args.verbose)
                   THEN WriteNow(TableHead(t.family))
                   ELSE UNCHANGED <<outbuf, stdout>>
                /\ mpc' = (IF ContainsSlash(t) THEN "ask_multiple" ELSE "ask")
                /\ ret' = ret
    /\ UNCHANGED <<args, build, net, spawned, upc, ures, uerrs, uret, usent,
                   errors, seen, outLock, errLock>>
    /\ cidle

\* ask: query_and_out runs on the calling thread
Ask ==
    /\ mpc = "ask"
    /\ mpc' = "in_ask"
    /\ upc' = [upc EXCEPT ![1] = "nbns"]
    /\ UNCHANGED <<args, build, net, TIMEOUT, ret, spawned, ures, uerrs, uret, usent,
                   outbuf, stdout, stderr, errors, seen, outLock, errLock>>
    /\ cidle

\* ask returned: run's `?`
AskReturn ==
    /\ mpc = "in_ask"
    /\ upc[1] = "returned"
    /\ ret' = uret[1]
    /\ upc' = [upc EXCEPT ![1] = "done"]
    /\ mpc' = "drop"
    /\ UNCHANGED <<args, build, net, TIMEOUT, spawned, ures, uerrs, uret, usent,
                   outbuf, stdout, stderr, errors, seen, outLock, errLock>>
    /\ cidle

\* query_and_out panicked on the calling thread: run unwinds
AskPanic ==
    /\ mpc = "in_ask"
    /\ upc[1] = "panicked"
    /\ ret' = "panicked"
    /\ mpc' = "drop"
    /\ UNCHANGED <<args, build, net, TIMEOUT, spawned, upc, ures, uerrs, uret, usent,
                   outbuf, stdout, stderr, errors, seen, outLock, errLock>>
    /\ cidle

\* ask_multiple on an IPv6 block
AskMultipleIpv6 ==
    /\ mpc = "ask_multiple"
    /\ args.target.family = "v6"
    /\ ret' = "ScanError"
    /\ mpc' = "drop"
    /\ UNCHANGED <<args, build, net, TIMEOUT, spawned, upc, ures, uerrs, uret, usent,
                   outbuf, stdout, stderr, errors, seen, outLock, errLock>>
    /\ cidle

\* ask_multiple: the runtime and the error list are built
AskMultiple ==
    /\ mpc = "ask_multiple"
    /\ args.target.family # "v6"
    /\ mpc' = "spawn"
    /\ UNCHANGED <<args, build, net, TIMEOUT, ret, spawned, upc, ures, uerrs, uret, usent,
                   outbuf, stdout, stderr, errors, seen, outLock, errLock>>
    /\ cidle

\* one iteration of `for addr in addr_range.hosts()`: rt.spawn_blocking
Spawn ==
    /\ mpc = "spawn"
    /\ spawned < args.target.nhosts
    /\ spawned' = spawned + 1
    /\ upc' = [upc EXCEPT ![spawned + 1] = "nbns"]
    /\ UNCHANGED <<args, build, net, TIMEOUT, mpc, ret, ures, uerrs, uret, usent,
                   outbuf, stdout, stderr, errors, seen, outLock, errLock>>
    /\ cidle

\* `let errors = errors.lock().unwrap()` right after the loop
LockErrors ==
    /\ mpc = "spawn"
    /\ spawned = args.target.nhosts
    /\ errLock = Unlocked
    /\ errLock' = MainThread
    /\ mpc' = "check"
    /\ UNCHANGED <<args, build, net, TIMEOUT, ret, spawned, upc, ures, uerrs, uret, usent,
                   outbuf, stdout, stderr, errors, seen, outLock>>
    /\ cidle

\* the error list is read and reported; the guard is dropped on return
CheckErrors ==
    /\ mpc = "check"
    /\ seen' = errors
    /\ stderr' = stderr \o [i \in 1..Len(errors) |->
                              [kind |-> "error", host |-> errors[i][1], err |-> errors[i][2]]]
    /\ ret' = (IF errors # <<>> THEN "ScanError" ELSE "Ok")
    /\ errLock' = Unlocked
    /\ mpc' = "rt_drop"
    /\ UNCHANGED <<args, build, net, TIMEOUT, spawned, upc, ures, uerrs, uret, usent,
                   outbuf, stdout, errors, outLock>>
    /\ cidle

\* a runtime that is shut down without waiting for its blocking tasks
RuntimeDropDetached ==
    /\ mpc = "rt_drop"
    /\ mpc' = "drop"
    /\ UNCHANGED <<args, build, net, TIMEOUT, ret, spawned, upc, ures, uerrs, uret, usent,
                   outbuf, stdout, stderr, errors, seen, outLock, errLock>>
    /\ cidle

\* the runtime is dropped: it waits for every blocking task that has started
RuntimeDrop ==
    /\ mpc = "rt_drop"
    /\ \A h \in 1..spawned : upc[h] \in {"done", "panicked", "cancelled"}
    /\ mpc' = "drop"
    /\ UNCHANGED <<args, build, net, TIMEOUT, ret, spawned, upc, ures, uerrs, uret, usent,
                   outbuf, stdout, stderr, errors, seen, outLock, errLock>>
    /\ cidle

\* Drop for App
AppDrop ==
    /\ mpc = "drop"
    /\ outLock = Unlocked
    /\ stdout' = (IF args.wait
                  THEN Append(stdout, [kind |-> "buffer", content |-> outbuf])
                  ELSE stdout)
    /\ mpc' = "done"
    /\ UNCHANGED <<args, build, net, TIMEOUT, ret, spawned, upc, ures, uerrs, uret, usent,
                   outbuf, stderr, errors, seen, outLock, errLock>>
    /\ cidle

(***************************************************************************)
(* Spec: query_and_out for host h, and the closure ask_multiple spawns     *)
(***************************************************************************)
\* where a unit stands once query_and_out has returned r: back in ask, at
\* the end of the spawned closure (Ok), or before its err_vec.lock() (Err)
AfterReturn(r) ==
    IF mpc = "in_ask" THEN "returned"
    ELSE IF r = "Ok" THEN "done"
    ELSE "returned"

\* the runtime shuts down while the closure spawned for host h has not
\* started: spawn_blocking lets such a task be dropped without running
UnitCancel(h) ==
    /\ mpc = "rt_drop"
    /\ upc[h] = "nbns"
    /\ upc' = [upc EXCEPT ![h] = "cancelled"]
    /\ UNCHANGED <<args, build, net, TIMEOUT, mpc, ret, spawned, ures, uerrs, uret, usent,
                   outbuf, stdout, stderr, errors, seen, outLock, errLock>>
    /\ cidle

\* OutputBuffer::write whose guard outlives the call
UnitWritePushKeepsGuard(h) ==
    /\ upc[h] = "writing"
    /\ outbuf' = Append(outbuf, EntryOf(h, ures[h], args.verbose))
    /\ uret' = [uret EXCEPT ![h] = QueryAndOutReturn(uerrs[h])]
    /\ upc' = [upc EXCEPT ![h] = AfterReturn(QueryAndOutReturn(uerrs[h]))]
    /\ ures' = [ures EXCEPT ![h] = QueryResultNew]
    /\ uerrs' = [uerrs EXCEPT ![h] = <<>>]
    /\ UNCHANGED <<args, build, net, TIMEOUT, mpc, ret, spawned, usent,
                   stdout, stderr, errors, seen, outLock, errLock>>
    /\ cidle

\* the address is IPv6
UnitIpv6(h) ==
    /\ upc[h] = "nbns"
    /\ args.target.family = "v6"
    /\ uret' = [uret EXCEPT ![h] = "Ipv6"]
    /\ upc' = [upc EXCEPT ![h] = AfterReturn("Ipv6")]
    /\ UNCHANGED <<args, build, net, TIMEOUT, mpc, ret, spawned, ures, uerrs, usent,
                   outbuf, stdout, stderr, errors, seen, outLock, errLock>>
    /\ cidle

\* match NbnsQuery::send(addr)
UnitNbns(h) ==
    /\ upc[h] = "nbns"
    /\ args.target.family = "v4"
    /\ \E tid \in TransIds :
         LET r == NbnsSendOf[net[h], TIMEOUT, tid]
         IN  /\ upc' = [upc EXCEPT ![h] = IF r.tag = "Panic" THEN "panicked" ELSE "mdns"]
             /\ ures' = [ures EXCEPT ![h].host_names =
                            IF r.tag = "Some" THEN @ \o r.val ELSE @]
             /\ uerrs' = [uerrs EXCEPT ![h] = IF r.tag = "Err" THEN Append(@, r.err) ELSE @]
    /\ usent' = [usent EXCEPT ![h] = Append(@, "nbns")]
    /\ UNCHANGED <<args, build, net, TIMEOUT, mpc, ret, spawned, uret,
                   outbuf, stdout, stderr, errors, seen, outLock, errLock>>
    /\ cidle

\* match MdnsQuery::send(addr)
UnitMdns(h) ==
    /\ upc[h] = "mdns"
    /\ LET r == MdnsSendOf[net[h], h, TIMEOUT, build]
       IN  /\ upc' = [upc EXCEPT ![h] = IF r.tag = "Panic" THEN "panicked" ELSE "write"]
           /\ ures' = [ures EXCEPT ![h].domain_name = IF r.tag = "Some" THEN r.val ELSE @]
           /\ uerrs' = [uerrs EXCEPT ![h] = IF r.tag = "Err" THEN Append(@, r.err) ELSE @]
    /\ usent' = [usent EXCEPT ![h] = Append(@, "mdns")]
    /\ UNCHANGED <<args, build, net, TIMEOUT, mpc, ret, spawned, uret,
                   outbuf, stdout, stderr, errors, seen, outLock, errLock>>
    /\ cidle

\* the result is empty, or it is printed at once; then the return value
UnitWrite(h) ==
    /\ upc[h] = "write"
    /\ QueryResultIsEmpty(ures[h]) \/ ~args.wait
    /\ stdout' = (IF QueryResultIsEmpty(ures[h]) THEN stdout
                  ELSE Append(stdout, EntryOf(h, ures[h], args.verbose)))
    /\ uret' = [uret EXCEPT ![h] = QueryAndOutReturn(uerrs[h])]
    /\ upc' = [upc EXCEPT ![h] = AfterReturn(QueryAndOutReturn(uerrs[h]))]
    /\ ures' = [ures EXCEPT ![h] = QueryResultNew]
    /\ uerrs' = [uerrs EXCEPT ![h] = <<>>]
    /\ UNCHANGED <<args, build, net, TIMEOUT, mpc, ret, spawned, usent,
                   outbuf, stderr, errors, seen, outLock, errLock>>
    /\ cidle

\* OutputBuffer::write with wait: self.0.lock()
UnitWriteLock(h) ==
    /\ upc[h] = "write"
    /\ ~QueryResultIsEmpty(ures[h])
    /\ args.wait
    /\ outLock = Unlocked
    /\ outLock' = UnitThread(h)
    /\ upc' = [upc EXCEPT ![h] = "writing"]
    /\ UNCHANGED <<args, build, net, TIMEOUT, mpc, ret, spawned, ures, uerrs, uret, usent,
                   outbuf, stdout, stderr, errors, seen, errLock>>
    /\ cidle

\* push_str and new_line under the lock, the guard dropped; then the
\* return value
UnitWritePush(h) ==
    /\ upc[h] = "writing"
    /\ outbuf' = Append(outbuf, EntryOf(h, ures[h], args.verbose))
    /\ outLock' = Unlocked
    /\ uret' = [uret EXCEPT ![h] = QueryAndOutReturn(uerrs[h])]
    /\ upc' = [upc EXCEPT ![h] = AfterReturn(QueryAndOutReturn(uerrs[h]))]
    /\ ures' = [ures EXCEPT ![h] = QueryResultNew]
    /\ uerrs' = [uerrs EXCEPT ![h] = <<>>]
    /\ UNCHANGED <<args, build, net, TIMEOUT, mpc, ret, spawned, usent,
                   stdout, stderr, errors, seen, errLock>>
    /\ cidle

\* the spawned closure after Err(e): err_vec.lock()
ClosureErrLock(h) ==
    /\ mpc # "in_ask"
    /\ upc[h] = "returned"
    /\ errLock = Unlocked
    /\ errLock' = UnitThread(h)
    /\ upc' = [upc EXCEPT ![h] = "pushing"]
    /\ UNCHANGED <<args, build, net, TIMEOUT, mpc, ret, spawned, ures, uerrs, uret, usent,
                   outbuf, stdout, stderr, errors, seen, outLock>>
    /\ cidle

\* push((addr, e)) under the lock, the guard dropped
ClosureErrPush(h) ==
    /\ upc[h] = "pushing"
    /\ errors' = Append(errors, <<h, uret[h]>>)
    /\ errLock' = Unlocked
    /\ upc' = [upc EXCEPT ![h] = "done"]
    /\ UNCHANGED <<args, build, net, TIMEOUT, mpc, ret, spawned, ures, uerrs, uret, usent,
                   outbuf, stdout, stderr, seen, outLock>>
    /\ cidle

Next ==
    \/ RunNew
    \/ Ask
    \/ AskReturn
    \/ AskPanic
    \/ AskMultipleIpv6
    \/ AskMultiple
    \/ Spawn
    \/ LockErrors
    \/ CheckErrors
    \/ RuntimeDrop
    \/ AppDrop
    \/ \E h \in Hosts : UnitCancel(h)
    \/ \E h \in Hosts : UnitIpv6(h)
    \/ \E h \in Hosts : UnitNbns(h)
    \/ \E h \in Hosts : UnitMdns(h)
    \/ \E h \in Hosts : UnitWrite(h)
    \/ \E h \in Hosts : UnitWriteLock(h)
    \/ \E h \in Hosts : UnitWritePush(h)
    \/ \E h \in Hosts : ClosureErrLock(h)
    \/ \E h \in Hosts : ClosureErrPush(h)

Spec == Init /\ [][Next]_vars

(***************************************************************************)
(* SpecCodec: one exchange, step by step                                   *)
(***************************************************************************)
\* the variables of Spec, unused here
SIdle ==
    /\ args = [kind |-> "none"]
    /\ net = <<>>
    /\ TIMEOUT = DEFAULT_TIMEOUT_MS
    /\ mpc = "idle"
    /\ ret = "none"
    /\ spawned = 0
    /\ upc = <<>>
    /\ ures = <<>>
    /\ uerrs = <<>>
    /\ uret = <<>>
    /\ usent = <<>>
    /\ outbuf = <<>>
    /\ stdout = <<>>
    /\ stderr = <<>>
    /\ errors = <<>>
    /\ seen = <<>>
    /\ outLock = Unlocked
    /\ errLock = Unlocked

CodecInit ==
    /\ cpc = "new"
    /\ cin \in NbnsInputs \cup MdnsInputs \cup NdnsInputs
    /\ creq = <<>>
    /\ chdr = NoHeader
    /\ qlog = <<>>
    /\ cbuff = OkNone
    /\ cres = OkNone
    /\ build \in Profiles
    /\ SIdle

\* NbnsQuery::new and as_slice
NbnsBuild ==
    /\ cpc = "new"
    /\ cin.proto = "nbns"
    /\ creq' = NbnsAsSlice(NbnsNew(cin.tid))
    /\ chdr' = NbnsNew(cin.tid).header
    /\ cpc' = "built"
    /\ UNCHANGED <<cin, qlog, cbuff, cres, svars>>

\* MdnsQuery::new and to_packet
MdnsBuild ==
    /\ cpc = "new"
    /\ cin.proto = "mdns"
    /\ creq' = MdnsToPacket(MdnsNew(cin.ip))
    /\ chdr' = MdnsNew(cin.ip).header
    /\ cpc' = "built"
    /\ UNCHANGED <<cin, qlog, cbuff, cres, svars>>

\* NdnsRequest::new and as_slice
NdnsBuild ==
    /\ cpc = "new"
    /\ cin.proto = "ndns"
    /\ creq' = NdnsAsSlice(NdnsRequestNew)
    /\ chdr' = NdnsRequestNew.header
    /\ cpc' = "built"
    /\ UNCHANGED <<cin, qlog, cbuff, cres, svars>>

\* one socket call of query: it is logged; when it fails query returns
\* Err(err), otherwise query goes on at `next`
QueryCall(at, call, ok, err, next) ==
    /\ cpc = at
    /\ cin.proto \in {"nbns", "mdns"}
    /\ qlog' = Append(qlog, call)
    /\ IF ok
       THEN cpc' = next /\ UNCHANGED cbuff
       ELSE cpc' = "queried" /\ cbuff' = Err(err)
    /\ UNCHANGED <<cin, creq, chdr, cres, svars>>

\* a connect whose failure is not looked at
QueryConnectUnchecked ==
    QueryCall("bound", "connect", TRUE, "SocketConnect", "connected")

\* UdpSocket::bind("0.0.0.0:0")
QueryBind ==
    QueryCall("built", "bind", cin.sock.bind, "SocketCreate", "bound")

\* sock.connect((addr, port))
QueryConnect ==
    QueryCall("bound", "connect", cin.sock.connect, "SocketConnect", "connected")

\* sock.set_write_timeout(Some(timeout))
QuerySetWriteTimeout ==
    QueryCall("connected", "wtimeout", TIMEOUT # 0 /\ cin.sock.wtimeout,
              "SocketTimeout", "wtimeout_set")

\* sock.set_read_timeout(Some(timeout))
QuerySetReadTimeout ==
    QueryCall("wtimeout_set", "rtimeout", cin.sock.rtimeout,
              "SocketTimeout", "rtimeout_set")

\* sock.send(request)
QuerySend ==
    QueryCall("rtimeout_set", "send", cin.sock.send, "SocketSend", "sent")

\* sock.recv(&mut response) into the zeroed buffer, and query's return
QueryRecv ==
    /\ cpc = "sent"
    /\ qlog' = Append(qlog, "recv")
    /\ cbuff' = (IF cin.sock.recv # "Reply" THEN OkNone
                 ELSE LET n == Min(Len(cin.sock.dgram), RECV_BUFF_SIZE)
                      IN  OkSome(Slice(cin.sock.dgram, 0, n) \o Zeros(RECV_BUFF_SIZE - n)))
    /\ cpc' = "queried"
    /\ UNCHANGED <<cin, creq, chdr, cres, svars>>

\* the rest of NbnsQuery::send
NbnsFinish ==
    /\ cpc = "queried"
    /\ cin.proto = "nbns"
    /\ cres' = NbnsReceive(cbuff)
    /\ cpc' = "done"
    /\ UNCHANGED <<cin, creq, chdr, qlog, cbuff, svars>>

\* the rest of MdnsQuery::send
MdnsFinish ==
    /\ cpc = "queried"
    /\ cin.proto = "mdns"
    /\ cres' = MdnsReceive(cbuff, Len(creq), build)
    /\ cpc' = "done"
    /\ UNCHANGED <<cin, creq, chdr, qlog, cbuff, svars>>

CodecNext ==
    \/ NbnsBuild
    \/ MdnsBuild
    \/ NdnsBuild
    \/ QueryBind
    \/ QueryConnect
    \/ QuerySetWriteTimeout
    \/ QuerySetReadTimeout
    \/ QuerySend
    \/ QueryRecv
    \/ NbnsFinish
    \/ MdnsFinish

SpecCodec == CodecInit /\ [][CodecNext]_vars

(***************************************************************************)
(* Properties of one exchange (SpecCodec)                                  *)
(***************************************************************************)
\* the value of a 16-bit field from its two wire bytes
WireU16(b) == b[1] * 256 + b[2]

\* the protocol's minimum response size past the request
MinResponse(proto) ==
    IF proto = "nbns" THEN NbnsMIN_RESPONSE_SIZE ELSE MdnsMIN_RESPONSE_SIZE

InvalidResponseOf(proto) ==
    IF proto = "nbns" THEN "InvalidResponseNbns" ELSE "InvalidResponseMdns"

\* send has returned for a reply the host did send
Replied ==
    /\ cpc = "done"
    /\ cin.sock.recv = "Reply"
    /\ cbuff.tag = "Some"

\* the fields NbnsQuery::send reads from the receive buffer
NbnsDataSize == U16At(cbuff.val, NbnsSIZE + 4)
NbnsNamesCount == At(cbuff.val, NbnsSIZE + 6)

\* C2: a datagram shorter than the protocol's minimum response size
\* (request length + 32 for NBNS, + 18 for mDNS) makes send return
\* InvalidResponseNbns / InvalidResponseMdns.
C2_ShortDatagramRejected ==
    (Replied /\ Len(cin.sock.dgram) < Len(creq) + MinResponse(cin.proto))
        => (cres.tag = "Err" /\ cres.err = InvalidResponseOf(cin.proto))

\* C3: an NBNS response declaring two names whose answer data holds one
\* complete 18-byte record makes send fail with InvalidResponseNbns.
C3_TwoDeclaredOnePresent ==
    (Replied /\ cin.proto = "nbns" /\ NbnsNamesCount = 2 /\ NbnsDataSize \in 18..35)
        => (cres.tag = "Err" /\ cres.err = "InvalidResponseNbns")

\* C4: an NBNS response from which zero name records are decoded (name count
\* 0 or answer data size 0) makes send return InvalidResponseNbns.
C4_NoNamesRejected ==
    (Replied /\ cin.proto = "nbns" /\ (NbnsNamesCount = 0 \/ NbnsDataSize = 0))
        => (cres.tag = "Err" /\ cres.err = "InvalidResponseNbns")

\* the classification the flag byte's two bits call for
GroupBit(f) == (f \div 128) % 2 = 1
PermanentBit(f) == (f \div 2) % 2 = 1
KindOfFlags(f) ==
    CASE GroupBit(f) /\ PermanentBit(f)    -> "PermanentGroup"
      [] ~GroupBit(f) /\ PermanentBit(f)   -> "Permanent"
      [] GroupBit(f) /\ ~PermanentBit(f)   -> "Group"
      [] OTHER                             -> "Unique"

\* the flag byte of the i-th name record of the receive buffer
FlagByteOfRecord(i) == At(cbuff.val, NbnsSIZE + 7 + (i - 1) * 18 + 16)

\* C5: every decoded name is PermanentGroup exactly when its record's flag
\* byte has both 0x80 and 0x02, Permanent with 0x02 only, Group with 0x80
\* only, Unique otherwise.
C5_FlagClassification ==
    (Replied /\ cin.proto = "nbns" /\ cres.tag = "Some")
        => \A i \in 1..Len(cres.val) :
              cres.val[i].kind # "Mac"
                  => cres.val[i].kind = KindOfFlags(FlagByteOfRecord(i))

\* a name whose flag byte has both bits and others besides was classified
C5_Witness ==
    /\ Replied
    /\ cin.proto = "nbns"
    /\ cres.tag = "Some"
    /\ Len(cres.val) = 2
    /\ cres.val[1].kind = "PermanentGroup"
    /\ FlagByteOfRecord(1) = 255

\* the query name inside the mDNS packet
QnameOf(packet) == Slice(packet, DnsHeaderSIZE, Len(packet) - 4)

\* reads length-prefixed labels up to the null terminator; <<"bad">> when
\* the bytes are not exactly such a sequence
RECURSIVE DecodeLabels(_)
DecodeLabels(bytes) ==
    IF bytes = <<>> THEN <<"bad">>
    ELSE IF Head(bytes) = 0 THEN (IF Len(bytes) = 1 THEN <<>> ELSE <<"bad">>)
    ELSE IF Len(bytes) < 1 + Head(bytes) THEN <<"bad">>
    ELSE LET rest == DecodeLabels(Slice(bytes, 1 + Head(bytes), Len(bytes)))
         IN  IF rest = <<"bad">> THEN rest
             ELSE <<Slice(bytes, 1, 1 + Head(bytes))>> \o rest

\* the number a string of ASCII digits denotes; -1 when it is not one
RECURSIVE ParseDec(_)
ParseDec(str) ==
    IF str = <<>> THEN -1
    ELSE IF str[Len(str)] \notin 48..57 THEN -1
    ELSE IF Len(str) = 1 THEN str[1] - 48
    ELSE LET hi == ParseDec(SubSeq(str, 1, Len(str) - 1))
         IN  IF hi <= 0 THEN -1 ELSE hi * 10 + (str[Len(str)] - 48)

\* C7: the query name for a.b.c.d is the labels d, c, b, a (decimal ASCII
\* without leading zeros), "in-addr", "arpa" and the null terminator.
C7_ReverseName ==
    (cpc # "new" /\ cin.proto = "mdns")
        => LET labels == DecodeLabels(QnameOf(creq))
           IN  /\ Len(labels) = 6
               /\ \A i \in 1..4 : ParseDec(labels[i]) = cin.ip[5 - i]
               /\ labels[5] = StrInAddr
               /\ labels[6] = StrArpa

\* 127.0.0.1 gives 1.0.0.127.in-addr.arpa
C7_Witness ==
    /\ cpc = "built"
    /\ cin.proto = "mdns"
    /\ cin.ip = <<127, 0, 0, 1>>
    /\ QnameOf(creq) = <<1, 49, 1, 48, 1, 48, 3, 49, 50, 55>>
                          \o <<7>> \o StrInAddr \o <<4>> \o StrArpa \o <<0>>

CountsAreOneQuestion ==
    /\ WireU16(chdr.qdcount) = 1
    /\ WireU16(chdr.ancount) = 0
    /\ WireU16(chdr.nscount) = 0
    /\ WireU16(chdr.arcount) = 0

OneBitSet(v) == \E k \in 0..15 : v = 2 ^ k

HasEntry(seq, h) ==
    \E i \in 1..Len(seq) : seq[i].kind \in {"row", "verbose"} /\ seq[i].host = h

\* query_and_out has written host h's result
Written(h) == IF args.wait THEN HasEntry(outbuf, h) ELSE HasEntry(stdout, h)

\* query_and_out has returned for host h
Returned(h) == uret[h] # "none"

ScanOfIpv4Range == args.target.kind = "range" /\ args.target.family = "v4"

\* C1: when a range scan is over, every unit that returned an error has its
\* error in the list ask_multiple read and the scan returned ScanError.
C1_ErrorsReadAfterUnits ==
    (mpc = "done" /\ ScanOfIpv4Range)
        => \A h \in 1..spawned :
              (Returned(h) /\ uret[h] # "Ok")
                  => /\ ret = "ScanError"
                     /\ \E i \in 1..Len(seen) : seen[i] = <<h, uret[h]>>

\* C9: run on an IPv6 target, address or block, returns Ipv6 and hands
\* nothing to the transport.
C9_Ipv6Rejected ==
    (mpc = "done" /\ args.target.family = "v6" /\ args.timeout # <<0>>)
        => /\ ret = "Ipv6"
           /\ \A h \in Hosts : usent[h] = <<>>

\* both exchanges with host h get through the socket calls and time out
NoReplyHost(h) ==
    /\ NbnsSock(net[h]) = SockNoReply
    /\ MdnsSock(net[h], h) = SockNoReply

NoResultEntries ==
    /\ \A h \in Hosts : ~HasEntry(outbuf, h) /\ ~HasEntry(stdout, h)
    /\ \A i \in 1..Len(stdout) :
          stdout[i].kind = "buffer" => \A h \in Hosts : ~HasEntry(stdout[i].content, h)

\* C6: a host that does not reply gives Ok(None) for both protocols, no
\* error and no result entry; a range scan that dispatched its units to
\* such hosts ends with no result entries and Ok.
C6_NoReplyIsNotFailure ==
    /\ \A h \in Queried(args) :
          (NoReplyHost(h) /\ upc[h] # "idle")
              => /\ \A tid \in TransIds : NbnsSendOf[net[h], TIMEOUT, tid] = OkNone
                 /\ MdnsSendOf[net[h], h, TIMEOUT, build] = OkNone
                 /\ uerrs[h] = <<>>
                 /\ Returned(h) => uret[h] = "Ok"
                 /\ ~Written(h)
                 /\ \A i \in 1..Len(errors) : errors[i][1] # h
    /\ (/\ mpc = "done"
        /\ ScanOfIpv4Range
        /\ spawned = args.target.nhosts
        /\ \A h \in Queried(args) : NoReplyHost(h))
          => /\ ret = "Ok"
             /\ NoResultEntries
             /\ \A i \in 1..Len(stderr) : stderr[i].kind # "error"

\* a scan of at least two hosts, none of which replied, is over
C6_Witness ==
    /\ mpc = "done"
    /\ ScanOfIpv4Range
    /\ args.target.nhosts >= 2
    /\ spawned = args.target.nhosts
    /\ \A h \in Queried(args) : NoReplyHost(h) /\ usent[h] = <<"nbns", "mdns">>
    /\ ret = "Ok"

\* C10: for an IPv4 host query_and_out hands NBNS then mDNS to the
\* transport; it returns Ok when neither failed, the one error when one
\* failed, InvalidResponses when both failed; a non-empty result is written
\* by the time it returns.
C10_ReturnByFailureCount ==
    \A h \in Queried(args) :
        Returned(h)
            => LET n == NbnsSendOf[net[h], TIMEOUT, 0]
                   m == MdnsSendOf[net[h], h, TIMEOUT, build]
               IN  /\ usent[h] = <<"nbns", "mdns">>
                   /\ (n.tag # "Err" /\ m.tag # "Err") => uret[h] = "Ok"
                   /\ (n.tag = "Err" /\ m.tag # "Err") => uret[h] = n.err
                   /\ (n.tag # "Err" /\ m.tag = "Err") => uret[h] = m.err
                   /\ (n.tag = "Err" /\ m.tag = "Err") => uret[h] = "InvalidResponses"
                   /\ (n.tag = "Some" \/ (m.tag = "Some" /\ m.val # <<>>)) => Written(h)

\* a unit whose NBNS send failed and whose mDNS query was answered has
\* written its row and returned the NBNS error
C10_Witness ==
    \E h \in Queried(args) :
        /\ Returned(h)
        /\ NbnsSendOf[net[h], TIMEOUT, 0].tag = "Err"
        /\ MdnsSendOf[net[h], h, TIMEOUT, build].tag = "Some"
        /\ uret[h] = "SocketSend"
        /\ Written(h)

\* the scan of an IPv4 block got as far as ask_multiple and run is over
ScanOver ==
    /\ mpc = "done"
    /\ ScanOfIpv4Range
    /\ ret \in {"Ok", "ScanError"}

\* host h's unit handed both requests to the transport and query_and_out
\* returned (answer, error or timeout)
RanToCompletion(h) ==
    /\ usent[h] = <<"nbns", "mdns">>
    /\ Returned(h)
    /\ upc[h] = "done"

\* C11: when a scan of an IPv4 block is over, one unit was dispatched for
\* each host address of the block and none for any other, and every
\* dispatched unit ran both its queries and returned, whatever the other
\* hosts did.
C11_EveryUnitRunsToCompletion ==
    ScanOver
        => /\ spawned = args.target.nhosts
           /\ \A h \in Hosts \ (1..args.target.nhosts) : upc[h] = "idle"
           /\ \A h \in 1..spawned : RanToCompletion(h)

\* the thread host h's unit runs on: the calling thread under ask, a
\* thread of the blocking pool under ask_multiple
ThreadOf(h) == IF mpc = "in_ask" THEN {MainThread, UnitThread(h)} ELSE {UnitThread(h)}

\* host h's unit is at a call of NbnsQuery::send or MdnsQuery::send
InTransport(h) == upc[h] \in {"nbns", "mdns"}

\* C12: a unit holds the buffer lock only inside OutputBuffer::write and the
\* error-list lock only inside its push; run's thread holds the error-list
\* lock only while it reads the list; no thread holds a lock while its own
\* unit is at a transport call, and no thread holds both locks.
C12_LockDiscipline ==
    /\ \A h \in Hosts :
          /\ outLock = UnitThread(h) => upc[h] = "writing"
          /\ errLock = UnitThread(h) => upc[h] = "pushing"
          /\ InTransport(h) => (outLock \notin ThreadOf(h) /\ errLock \notin ThreadOf(h))
    /\ errLock = MainThread => mpc = "check"
    /\ outLock # MainThread
    /\ (outLock = errLock) => outLock = Unlocked

\* run's thread reads the error list under its lock while one unit appends
\* to the buffer under the other lock; another unit is still at a query
C12_Witness ==
    /\ errLock = MainThread
    /\ \E h \in Hosts : outLock = UnitThread(h) /\ upc[h] = "writing"
    /\ \E h \in Hosts : InTransport(h) /\ usent[h] = <<"nbns">>

\* App::new succeeds on these arguments, so an App exists and is dropped
AppBuilt == args.target.kind \in {"addr", "range"} /\ args.timeout # <<0>>

\* host h's unit is neither running nor still to run
Finished(h) == upc[h] \in {"done", "panicked", "cancelled"}

\* the result query_and_out holds for host h at its write is not empty
NonEmptyResult(h) ==
    LET n == NbnsSendOf[net[h], TIMEOUT, 0]
        m == MdnsSendOf[net[h], h, TIMEOUT, build]
    IN  n.tag = "Some" \/ (m.tag = "Some" /\ m.val # <<>>)

\* the println! of Drop for App has happened
BufferPrinted == \E i \in 1..Len(stdout) : stdout[i].kind = "buffer"

QueryOrder == <<"bind", "connect", "wtimeout", "rtimeout", "send", "recv">>

\* the error the claim gives for a failure of each call before recv
ErrorOfCall ==
    [c \in SockSteps |->
        CASE c = "bind"     -> "SocketCreate"
          [] c = "connect"  -> "SocketConnect"
          [] c = "wtimeout" -> "SocketTimeout"
          [] c = "rtimeout" -> "SocketTimeout"
          [] c = "send"     -> "SocketSend"]

\* the calls before recv that the network makes fail, by position
FailingCalls == {i \in 1..5 : ~cin.sock[QueryOrder[i]]}

Count(seq, x) == Cardinality({i \in 1..Len(seq) : seq[i] = x})

\* C14: query makes its socket calls in the order bind, connect, timeouts,
\* send, recv and stops at the first that fails, returning that call's
\* error; a recv failure of either kind gives Ok(None); a reply gives the
\* buffer; no call is made twice.
C14_QueryStepOrder ==
    /\ Len(qlog) <= Len(QueryOrder)
    /\ qlog = SubSeq(QueryOrder, 1, Len(qlog))
    /\ Count(qlog, "send") <= 1 /\ Count(qlog, "recv") <= 1
    /\ cpc \in {"queried", "done"}
          => /\ cbuff = Query(cin.sock, TIMEOUT, creq)
             /\ IF FailingCalls # {}
                THEN LET k == CHOOSE i \in FailingCalls : \A j \in FailingCalls : i <= j
                     IN  /\ qlog = SubSeq(QueryOrder, 1, k)
                         /\ cbuff = Err(ErrorOfCall[QueryOrder[k]])
                         /\ k < 5 => Count(qlog, "send") = 0
                ELSE /\ qlog = QueryOrder
                     /\ cin.sock.recv # "Reply" => cbuff = OkNone
                     /\ cin.sock.recv = "Reply"
                            => cbuff.tag = "Some" /\ Len(cbuff.val) = RECV_BUFF_SIZE

\* a query whose connect failed has returned after two calls
C14_Witness ==
    /\ cpc = "queried"
    /\ ~cin.sock.connect
    /\ qlog = <<"bind", "connect">>
    /\ cbuff = Err("SocketConnect")

(***************************************************************************)
(* Properties of the mDNS answer decoding (SpecCodec)                      *)
(***************************************************************************)
\* the labels with their non-printable bytes removed, joined by '.'
RECURSIVE JoinDots(_)
JoinDots(labels) ==
    IF Len(labels) = 1 THEN Printable(labels[1])
    ELSE Printable(Head(labels)) \o <<46>> \o JoinDots(Tail(labels))

\* the reply to the request is a PTR answer made of exactly these labels,
\* with the answer size their encoded length, and it arrived whole
AnswersWith(labels) ==
    /\ cin.proto = "mdns"
    /\ cin.sock.recv = "Reply"
    /\ \A i \in 1..5 : cin.sock[QueryOrder[i]]
    /\ Len(cin.sock.dgram) >= Len(creq) + 12 + Len(EncodeLabels(labels))
    /\ cin.sock.dgram =
          MdnsDatagram(creq, labels, Len(EncodeLabels(labels)), Len(cin.sock.dgram))

\* C15: for a reply whose answer is a null-terminated sequence of one or more
\* length-prefixed labels with the matching answer size, MdnsQuery::send
\* returns the labels joined by single dots, with no dot before or after,
\* each label stripped of the bytes that are not letters, digits or
\* punctuation.
C15_LabelsJoined ==
    \A l \in LabelSamples :
        (cpc = "done" /\ AnswersWith(l)) => cres = OkSome(JoinDots(l))

\* the answer "my pc", <0, "x", 200>, "local" came back as "mypc.x.local"
C15_Witness ==
    /\ cpc = "done"
    /\ AnswersWith(<<<<109, 121, 32, 112, 99>>, <<0, 120, 200>>, <<108, 111, 99, 97, 108>>>>)
    /\ cres = OkSome(<<109, 121, 112, 99, 46, 120, 46, 108, 111, 99, 97, 108>>)

(***************************************************************************)
(* Properties of the NBNS response parsing (SpecCodec)                     *)
(***************************************************************************)
\* C16: whatever the receive buffer holds, the parsing in NbnsQuery::send
\* ends in Ok(Some(..)) or InvalidResponseNbns: no declared answer data
\* size or name count makes it index past the buffer, past a name record
\* or past the end for the MAC address.
C16_NbnsParseInBounds ==
    (cpc = "done" /\ cin.proto = "nbns" /\ cbuff.tag = "Some")
        => \/ cres.tag = "Some"
           \/ cres = Err("InvalidResponseNbns")

====
